---- MODULE Spec2Model ----
(***************************************************************************)
(* Light-weight (frontier-only) append-only Merkle tree of the Jellyfish   *)
(* library, primitives/src/merkle_tree/light_weight.rs, together with the  *)
(* full-retention tree the tests compare it against.                       *)
(*                                                                         *)
(* The digest algorithm is an external collaborator.  It is modelled as a  *)
(* free (collision-free) constructor: the digest of a leaf is the tagged   *)
(* tuple of its position and element, the digest of a branch the tagged    *)
(* tuple of its children's digests, the digest of Empty a fixed sentinel.  *)
(***************************************************************************)
EXTENDS Integers, Sequences, FiniteSets, TLC

(* ---------------- bounds of the model ---------------- *)
MaxHeight == 2      \* trees of height 1..MaxHeight
MaxBatch == 9       \* longest sequence handed to extend / from_elems
MaxLeaves == 9      \* appends are offered while the tree holds at most MaxLeaves
MaxRemembered == 1  \* remember is offered while fewer leaves off the frontier are kept
MaxSplit == 4       \* longest sequence whose splits into batches are compared

(* ---------------- program constants ---------------- *)
Arity == 3          \* RescueLightWeightMerkleTree::ARITY (capacity 9 at height 2)

Heights == 1..MaxHeight

RECURSIVE pow(_, _)
pow(b, e) == IF e = 0 THEN 1 ELSE b * pow(b, e - 1)

VARIABLES
    root,           \* LightWeightMerkleTree.root
    height,         \* LightWeightMerkleTree.height
    num_leaves,     \* LightWeightMerkleTree.num_leaves
    mock_root,      \* root of the full-retention tree fed the same calls
    mock_num_leaves,\* its num_leaves
    constructed,    \* a tree has been constructed (new or from_elems returned one)
    appended,       \* the elements placed so far, in order of placement
    last            \* the last call: its name, arguments and result

vars == <<root, height, num_leaves, mock_root, mock_num_leaves, constructed,
          appended, last>>

(* ---------------- digests ---------------- *)
empty_digest == <<"E">>

digest_leaf(pos, elem) == <<"L", pos, elem>>

digest(values) == <<"B", values>>

(* ---------------- nodes ---------------- *)
Empty == [t |-> "Empty"]

Leaf(v, p, e) == [t |-> "Leaf", value |-> v, pos |-> p, elem |-> e]

Branch(v, ch) == [t |-> "Branch", value |-> v, children |-> ch]

ForgettenSubtree(v) == [t |-> "ForgettenSubtree", value |-> v]

value(node) == IF node.t = "Empty" THEN empty_digest ELSE node.value

is_forgotten(node) == node.t = "ForgettenSubtree"

digest_branch(children) == digest([i \in 1..Arity |-> value(children[i])])

(* ---------------- traversal path and capacity ---------------- *)
\* base-Arity digits of pos, most significant first; path[h - k + 1] is the
\* selector used by a node of height k, path[1] the one used by the root
to_traversal_path(pos, h) ==
    [k \in 1..h |-> (pos \div pow(Arity, h - k)) % Arity]

\* the selector a node of height h (h >= 1) uses on a path of a tree
selector(path, h) == path[Len(path) - h + 1]

capacity(h) == pow(Arity, h)

(* ---------------- the append / extend engine ---------------- *)
\* no Empty slot remains beneath the node
RECURSIVE is_full(_)
is_full(node) ==
    CASE node.t = "Empty" -> FALSE
      [] node.t = "Branch" -> \A i \in 1..Arity : is_full(node.children[i])
      [] OTHER -> TRUE

\* the fully packed, still materialized siblings left of the frontier are
\* replaced by ForgettenSubtree carrying their digest
forget_left(children, frontier) ==
    [i \in 1..Arity |->
        IF i <= frontier /\ ~is_forgotten(children[i]) /\ is_full(children[i])
        THEN ForgettenSubtree(value(children[i]))
        ELSE children[i]]

\* extend_node: the algorithm shared by the two modes (fg: forgetting enabled).
\* data is what is left of the input; the result is the node as the call
\* leaves it, the number of elements it placed, and whether it failed.
\* extend_children is the loop of a branch of height h over its slots
\* frontier..Arity-1 (slots are numbered from 0, children from 1).
RECURSIVE extend_node(_, _, _, _, _, _, _)
RECURSIVE extend_children(_, _, _, _, _, _, _, _, _)
extend_children(fg, children, frontier, h, cur_pos, path, at_frontier, data, cnt) ==
    IF data = <<>> \/ frontier >= Arity
    THEN [children |-> children, cnt |-> cnt, err |-> FALSE]
    ELSE LET ch1 == IF fg THEN forget_left(children, frontier) ELSE children
             r == extend_node(fg, ch1[frontier + 1], h - 1, cur_pos, path,
                              at_frontier /\ frontier = selector(path, h), data)
             ch2 == [ch1 EXCEPT ![frontier + 1] = r.node]
         IN  IF r.err
             THEN [children |-> ch2, cnt |-> cnt, err |-> TRUE]
             ELSE extend_children(fg, ch2, frontier + 1, h, cur_pos + r.cnt, path,
                                  at_frontier, SubSeq(data, r.cnt + 1, Len(data)),
                                  cnt + r.cnt)

extend_node(fg, node, h, pos, path, at_frontier, data) ==
    IF data = <<>>
    THEN [node |-> node, cnt |-> 0, err |-> FALSE]
    ELSE CASE node.t = "Branch" ->
                LET frontier == IF at_frontier THEN selector(path, h) ELSE 0
                    r == extend_children(fg, node.children, frontier, h, pos, path,
                                         at_frontier, data, 0)
                IN  IF r.err
                    THEN [node |-> [node EXCEPT !.children = r.children],
                          cnt |-> r.cnt, err |-> TRUE]
                    ELSE [node |-> Branch(digest_branch(r.children), r.children),
                          cnt |-> r.cnt, err |-> FALSE]
           [] node.t = "Empty" ->
                IF h = 0
                THEN [node |-> Leaf(digest_leaf(pos, Head(data)), pos, Head(data)),
                      cnt |-> 1, err |-> FALSE]
                ELSE LET frontier == IF at_frontier THEN selector(path, h) ELSE 0
                         r == extend_children(fg, [i \in 1..Arity |-> Empty], frontier,
                                              h, pos, path, at_frontier, data, 0)
                     IN  IF r.err
                         THEN [node |-> node, cnt |-> r.cnt, err |-> TRUE]
                         ELSE [node |-> Branch(digest_branch(r.children), r.children),
                               cnt |-> r.cnt, err |-> FALSE]
           [] OTHER -> \* Leaf: index already occupied; ForgettenSubtree: not in memory
                [node |-> node, cnt |-> 0, err |-> TRUE]

extend_and_forget_internal(node, h, pos, path, at_frontier, data) ==
    extend_node(TRUE, node, h, pos, path, at_frontier, data)

extend_internal(node, h, pos, path, at_frontier, data) ==
    extend_node(FALSE, node, h, pos, path, at_frontier, data)

(* ---------------- LightWeightMerkleTree ---------------- *)
\* a tree value: the three fields of the struct
Tree(r, h, n) == [root |-> r, height |-> h, num_leaves |-> n]

new(h) == Tree(Empty, h, 0)

\* what an extend does once the engine has returned r: an error of the
\* engine is passed on, num_leaves advances by what was placed, and elements
\* left in the iterator make the call fail
extend_result(self, elems, r) ==
    IF r.err
    THEN [tree |-> Tree(r.node, self.height, self.num_leaves),
          ok |-> FALSE, taken |-> r.cnt]
    ELSE [tree |-> Tree(r.node, self.height, self.num_leaves + r.cnt),
          ok |-> ~(r.cnt < Len(elems)), taken |-> r.cnt]

\* ---- variants of extend with one slip each ----
\* the batch is rolled back when it does not fit
extend_rollback(self, elems) ==
    LET r == extend_and_forget_internal(self.root, self.height, self.num_leaves,
                   to_traversal_path(self.num_leaves, self.height), TRUE, elems)
    IN  IF ~r.err /\ r.cnt < Len(elems)
        THEN [tree |-> self, ok |-> FALSE, taken |-> 0]
        ELSE extend_result(self, elems, r)

\* the root is not told that it is on the frontier
extend_not_frontier(self, elems) ==
    extend_result(self, elems,
        extend_and_forget_internal(self.root, self.height, self.num_leaves,
            to_traversal_path(self.num_leaves, self.height), FALSE, elems))

\* the engine of the full-retention tree is called
extend_no_forget(self, elems) ==
    extend_result(self, elems,
        extend_internal(self.root, self.height, self.num_leaves,
            to_traversal_path(self.num_leaves, self.height), TRUE, elems))

\* the traversal path is that of the index after the next free one
extend_path_off_by_one(self, elems) ==
    extend_result(self, elems,
        extend_and_forget_internal(self.root, self.height, self.num_leaves,
            to_traversal_path(self.num_leaves + 1, self.height), TRUE, elems))

\* the first position handed to the engine is 0
extend_wrong_pos(self, elems) ==
    extend_result(self, elems,
        extend_and_forget_internal(self.root, self.height, 0,
            to_traversal_path(self.num_leaves, self.height), TRUE, elems))

\* num_leaves advances by the elements given, not by the elements placed
extend_count_given(self, elems) ==
    LET r == extend_and_forget_internal(self.root, self.height, self.num_leaves,
                   to_traversal_path(self.num_leaves, self.height), TRUE, elems)
    IN  IF r.err THEN extend_result(self, elems, r)
        ELSE [tree |-> Tree(r.node, self.height, self.num_leaves + Len(elems)),
              ok |-> ~(r.cnt < Len(elems)), taken |-> r.cnt]

\* a full tree is turned away before the iterator is looked at
extend_full_is_error(self, elems) ==
    IF self.num_leaves >= capacity(self.height)
    THEN [tree |-> self, ok |-> FALSE, taken |-> 0]
    ELSE extend_result(self, elems,
             extend_and_forget_internal(self.root, self.height, self.num_leaves,
                 to_traversal_path(self.num_leaves, self.height), TRUE, elems))

\* the root keeps the digest it had when the batch does not fit
extend_stale_on_error(self, elems) ==
    LET r == extend_and_forget_internal(self.root, self.height, self.num_leaves,
                   to_traversal_path(self.num_leaves, self.height), TRUE, elems)
        res == extend_result(self, elems, r)
    IN  IF ~r.err /\ r.cnt < Len(elems) /\ r.node.t = "Branch"
        THEN [res EXCEPT !.tree.root.value = value(self.root)]
        ELSE res

\* extend: the tree the call leaves behind, whether it returned Ok, and how
\* many elements it took from the iterator
extend(self, elems) ==
    extend_result(self, elems,
        extend_and_forget_internal(self.root, self.height, self.num_leaves,
            to_traversal_path(self.num_leaves, self.height), TRUE, elems))

\* push through the engine of the full-retention tree
push_no_forget(self, elem) == extend_no_forget(self, <<elem>>)

push(self, elem) == extend(self, <<elem>>)

\* the full-retention tree (RescueMerkleTree) of the tests
mock_extend(self, elems) ==
    LET traversal_path == to_traversal_path(self.num_leaves, self.height)
        r == extend_internal(self.root, self.height, self.num_leaves,
                             traversal_path, TRUE, elems)
    IN  IF r.err
        THEN [tree |-> Tree(r.node, self.height, self.num_leaves),
              ok |-> FALSE, taken |-> r.cnt]
        ELSE [tree |-> Tree(r.node, self.height, self.num_leaves + r.cnt),
              ok |-> ~(r.cnt < Len(elems)), taken |-> r.cnt]

(* ---------------- the builder ---------------- *)
\* one level up: groups of Arity nodes, the last padded with Empty
chunks(nodes) ==
    [c \in 1..((Len(nodes) + Arity - 1) \div Arity) |->
        LET ch == [i \in 1..Arity |->
                      IF (c - 1) * Arity + i <= Len(nodes)
                      THEN nodes[(c - 1) * Arity + i] ELSE Empty]
        IN  Branch(digest_branch(ch), ch)]

forget_all_but_last(nodes) ==
    [i \in 1..Len(nodes) |->
        IF i < Len(nodes) THEN ForgettenSubtree(value(nodes[i])) ELSE nodes[i]]

RECURSIVE build_levels(_, _, _)
build_levels(fg, nodes, k) ==
    IF k = 0 THEN nodes[1]
    ELSE build_levels(fg, chunks(IF fg THEN forget_all_but_last(nodes) ELSE nodes), k - 1)

\* the minimal height >= 1 whose capacity holds n elements
RECURSIVE min_height(_, _)
min_height(n, h) == IF capacity(h) >= n THEN h ELSE min_height(n, h + 1)

NoHeight == 0   \* height: None

build_tree(fg, h_opt, elems) ==
    LET n == Len(elems)
        h == IF h_opt = NoHeight THEN min_height(n, 1) ELSE h_opt
        leaves == [i \in 1..n |-> Leaf(digest_leaf(i - 1, elems[i]), i - 1, elems[i])]
    IN  IF n > capacity(h) THEN [ok |-> FALSE, tree |-> new(h)]
        ELSE IF n = 0 THEN [ok |-> TRUE, tree |-> new(h)]
        ELSE [ok |-> TRUE, tree |-> Tree(build_levels(fg, leaves, h), h, n)]

build_light_weight_tree_internal(h_opt, elems) == build_tree(TRUE, h_opt, elems)

build_tree_internal(h_opt, elems) == build_tree(FALSE, h_opt, elems)

\* ---- variants of from_elems with one slip each ----
\* the requested height is dropped
from_elems_any_height(h_opt, elems) ==
    build_light_weight_tree_internal(NoHeight, elems)

\* a tree one level higher when no height is requested
from_elems_next_height(h_opt, elems) ==
    IF h_opt = NoHeight
    THEN build_light_weight_tree_internal(min_height(Len(elems) + 1, 1), elems)
    ELSE build_light_weight_tree_internal(h_opt, elems)

\* the builder of the full-retention tree is called
from_elems_full(h_opt, elems) == build_tree_internal(h_opt, elems)

from_elems(h_opt, elems) == build_light_weight_tree_internal(h_opt, elems)

mock_from_elems(h_opt, elems) == build_tree_internal(h_opt, elems)

(* ---------------- lookup and proofs ---------------- *)
MerkleProof(h, pos, path) == [height |-> h, pos |-> pos, proof |-> path]

\* the declared height counts the branch levels only
MerkleProof_new_branch_levels(pos, path) == MerkleProof(Len(path) - 1, pos, path)

\* MerkleProof::new(pos, proof)
MerkleProof_new(pos, path) == MerkleProof(Len(path), pos, path)

tree_height(proof) == proof.height

\* what a proof records of a branch: its digest and, of each child, whether
\* it is Empty and otherwise its digest
snapshot(node) ==
    Branch(node.value,
           [i \in 1..Arity |->
               IF node.children[i].t = "Empty" THEN Empty
               ELSE ForgettenSubtree(value(node.children[i]))])

NotFound == [r |-> "NotFound"]
NotInMemory == [r |-> "NotInMemory"]
Found(elem, path) == [r |-> "Ok", elem |-> elem, proof |-> path]

RECURSIVE lookup_internal(_, _, _)
lookup_internal(node, h, path) ==
    CASE node.t = "Empty" -> NotFound
      [] node.t = "Leaf" -> Found(node.elem, <<node>>)
      [] node.t = "ForgettenSubtree" -> NotInMemory
      [] node.t = "Branch" ->
            LET r == lookup_internal(node.children[selector(path, h) + 1], h - 1, path)
            IN  IF r.r = "Ok" THEN Found(r.elem, Append(r.proof, snapshot(node)))
                ELSE r

lookup(self, pos) ==
    IF pos >= self.num_leaves THEN NotFound
    ELSE LET r == lookup_internal(self.root, self.height,
                                  to_traversal_path(pos, self.height))
         IN  IF r.r = "Ok" THEN Found(r.elem, MerkleProof_new(pos, r.proof)) ELSE r

(* ---------------- verification ---------------- *)
\* the digest of the ancestor of height k, recomputed from the digest val of
\* its child on the path and the sibling digests recorded in the proof
RECURSIVE recompute(_, _, _, _)
recompute(proof, path, k, val) ==
    IF k > Len(path) THEN val
    ELSE LET node == proof.proof[k + 1]
             data == [i \in 1..Arity |->
                         IF i = selector(path, k) + 1 THEN val
                         ELSE value(node.children[i])]
         IN  recompute(proof, path, k + 1, digest(data))

well_formed(pos, proof) ==
    /\ Len(proof.proof) = tree_height(proof)
    /\ proof.pos = pos

\* ---- variants of verify with one slip each ----
\* the digest cached in the proof's leaf is trusted
verify_cached_leaf(root_value, pos, proof) ==
    IF ~well_formed(pos, proof) THEN "Err"
    ELSE IF recompute(proof, to_traversal_path(proof.pos, tree_height(proof) - 1), 1,
                      proof.proof[1].value) = root_value
         THEN "Valid" ELSE "Invalid"

\* the digest cached in the proof's top node is compared with the root
verify_cached_top(root_value, pos, proof) ==
    IF ~well_formed(pos, proof) THEN "Err"
    ELSE IF proof.proof[Len(proof.proof)].value = root_value
         THEN "Valid" ELSE "Invalid"

\* a digest mismatch is reported as an error
verify_mismatch_is_error(root_value, pos, proof) ==
    IF ~well_formed(pos, proof) THEN "Err"
    ELSE LET leaf == proof.proof[1]
         IN  IF recompute(proof, to_traversal_path(proof.pos, tree_height(proof) - 1),
                          1, digest_leaf(leaf.pos, leaf.elem)) = root_value
             THEN "Valid" ELSE "Err"

verify(root_value, pos, proof) ==
    IF ~well_formed(pos, proof) THEN "Err"
    ELSE LET leaf == proof.proof[1]
             init == digest_leaf(leaf.pos, leaf.elem)
             path == to_traversal_path(proof.pos, tree_height(proof) - 1)
         IN  IF recompute(proof, path, 1, init) = root_value
             THEN "Valid" ELSE "Invalid"

(* ---------------- forget and remember ---------------- *)
RECURSIVE forget_internal(_, _, _)
forget_internal(node, h, path) ==
    CASE node.t = "Empty" -> [node |-> node, r |-> "NotFound"]
      [] node.t = "ForgettenSubtree" -> [node |-> node, r |-> "NotInMemory"]
      [] node.t = "Leaf" -> [node |-> ForgettenSubtree(node.value), r |-> "Ok"]
      [] node.t = "Branch" ->
            LET i == selector(path, h) + 1
                r == forget_internal(node.children[i], h - 1, path)
                ch == [node.children EXCEPT ![i] = r.node]
            IN  IF r.r # "Ok" THEN [node |-> node, r |-> r.r]
                ELSE IF \A j \in 1..Arity : is_forgotten(ch[j])
                THEN [node |-> ForgettenSubtree(node.value), r |-> "Ok"]
                ELSE [node |-> Branch(node.value, ch), r |-> "Ok"]

\* ---- a variant of forget: the leaf is dropped and the digests refreshed ----
RECURSIVE forget_to_empty_internal(_, _, _)
forget_to_empty_internal(node, h, path) ==
    CASE node.t = "Empty" -> [node |-> node, r |-> "NotFound"]
      [] node.t = "ForgettenSubtree" -> [node |-> node, r |-> "NotInMemory"]
      [] node.t = "Leaf" -> [node |-> Empty, r |-> "Ok"]
      [] node.t = "Branch" ->
            LET i == selector(path, h) + 1
                r == forget_to_empty_internal(node.children[i], h - 1, path)
                ch == [node.children EXCEPT ![i] = r.node]
            IN  IF r.r # "Ok" THEN [node |-> node, r |-> r.r]
                ELSE [node |-> Branch(digest_branch(ch), ch), r |-> "Ok"]

forget_to_empty(self, pos) ==
    IF pos >= self.num_leaves THEN [tree |-> self, r |-> "NotFound"]
    ELSE LET r == forget_to_empty_internal(self.root, self.height,
                                           to_traversal_path(pos, self.height))
         IN  [tree |-> Tree(r.node, self.height, self.num_leaves), r |-> r.r]

forget(self, pos) ==
    IF pos >= self.num_leaves THEN [tree |-> self, r |-> "NotFound"]
    ELSE LET r == forget_internal(self.root, self.height,
                                  to_traversal_path(pos, self.height))
         IN  [tree |-> Tree(r.node, self.height, self.num_leaves), r |-> r.r]

\* the node of height h on the path, with the leaf at its end materialized
\* again; a forgotten ancestor is rebuilt from what the proof records of it
RECURSIVE remember_internal(_, _, _, _, _)
remember_internal(node, h, path, elem, proof) ==
    IF h = 0 THEN Leaf(digest_leaf(proof.pos, elem), proof.pos, elem)
    ELSE LET base == IF node.t = "Branch" THEN node.children
                     ELSE proof.proof[h + 1].children
             i == selector(path, h) + 1
             ch == [base EXCEPT ![i] = remember_internal(base[i], h - 1, path, elem, proof)]
         IN  Branch(digest_branch(ch), ch)

\* ---- a variant of remember: the proof is not verified ----
remember_unverified(self, pos, elem, proof) ==
    IF /\ tree_height(proof) = self.height + 1
       /\ proof.proof[1].elem = elem
    THEN [tree |-> Tree(remember_internal(self.root, self.height,
                                          to_traversal_path(pos, self.height),
                                          elem, proof),
                        self.height, self.num_leaves),
          ok |-> TRUE]
    ELSE [tree |-> self, ok |-> FALSE]

remember(self, pos, elem, proof) ==
    IF /\ tree_height(proof) = self.height + 1
       /\ verify(value(self.root), pos, proof) = "Valid"
       /\ proof.proof[1].elem = elem
    THEN [tree |-> Tree(remember_internal(self.root, self.height,
                                          to_traversal_path(pos, self.height),
                                          elem, proof),
                        self.height, self.num_leaves),
          ok |-> TRUE]
    ELSE [tree |-> self, ok |-> FALSE]

(* ---------------- proofs handed to verify and remember ---------------- *)
self == Tree(root, height, num_leaves)

mock == Tree(mock_root, height, mock_num_leaves)

\* the proof the full-retention tree produces for index i
genuine(i) == lookup(mock, i).proof

\* the element recorded in the proof's leaf overwritten, all digests kept
bad_elem(proof, e) == [proof EXCEPT !.proof[1].elem = e]

\* the proof re-labelled as one for index j holding e, siblings kept
forge(proof, j, e) ==
    MerkleProof_new(j, [proof.proof EXCEPT ![1].pos = j, ![1].elem = e])

\* the top node of the path dropped, the declared height kept
truncated(proof) ==
    [proof EXCEPT !.proof = SubSeq(proof.proof, 1, Len(proof.proof) - 1)]

\* the top node of the path dropped, the height declared accordingly
shortened(proof) ==
    MerkleProof_new(proof.pos, SubSeq(proof.proof, 1, Len(proof.proof) - 1))

\* the indices handed to lookup, forget and verify: the leaves, the next two
\* free indices, the capacity and the index after it
Indices == (0..(num_leaves + 1)) \cup {capacity(height), capacity(height) + 1}

\* how an index relates to the leaves: the last one, an earlier one, none
Kind(i) ==
    IF i >= num_leaves THEN "beyond"
    ELSE IF i = num_leaves - 1 THEN "last" ELSE "earlier"

\* the leaves lookup finds in memory
InMemory == {i \in 0..(num_leaves - 1) : lookup(self, i).r = "Ok"}

\* Elements are opaque to the tree.  The k-th element of a call on a tree of
\* n leaves is the number n + k, so the element meant for index i is i + 1
\* and all elements of a tree differ.
Fresh(n, k) == [i \in 1..k |-> n + i]

\* the values written into proofs: 0, which no leaf holds, and the elements
ProofElems == 0..(num_leaves + 1)

(* ---------------- the state machine ---------------- *)
Call(op, ok, elems, n0, kind, res) ==
    [op |-> op, ok |-> ok, elems |-> elems, n0 |-> n0, kind |-> kind, res |-> res]

tree_vars == <<root, height, num_leaves, mock_root, mock_num_leaves, constructed,
               appended>>

Init ==
    /\ constructed = FALSE
    /\ height = 0
    /\ root = Empty
    /\ num_leaves = 0
    /\ mock_root = Empty
    /\ mock_num_leaves = 0
    /\ appended = <<>>
    /\ last = Call("none", TRUE, <<>>, 0, "", "")

New(h) ==
    /\ ~constructed
    /\ constructed' = TRUE
    /\ height' = new(h).height
    /\ root' = new(h).root
    /\ num_leaves' = new(h).num_leaves
    /\ mock_root' = Empty
    /\ mock_num_leaves' = 0
    /\ appended' = <<>>
    /\ last' = Call("new", TRUE, <<>>, 0, "", "")

FromElems(h_opt, elems) ==
    LET r == from_elems(h_opt, elems)
        m == mock_from_elems(h_opt, elems)
    IN  /\ ~constructed
        /\ last' = Call("from_elems", r.ok, elems, h_opt, "", "")
        /\ IF r.ok
           THEN /\ constructed' = TRUE
                /\ height' = r.tree.height
                /\ root' = r.tree.root
                /\ num_leaves' = r.tree.num_leaves
                /\ mock_root' = m.tree.root
                /\ mock_num_leaves' = m.tree.num_leaves
                /\ appended' = elems
           ELSE UNCHANGED tree_vars

\* appends are offered while the result stays within MaxLeaves, or when they
\* overflow the tree
Offered(elems) ==
    /\ constructed
    /\ \/ num_leaves + Len(elems) <= MaxLeaves
       \/ num_leaves + Len(elems) > capacity(height)

\* the two trees and the history after a call that left r and m behind
Applied(op, elems, r, m) ==
    /\ Offered(elems)
    /\ root' = r.tree.root
    /\ num_leaves' = r.tree.num_leaves
    /\ mock_root' = m.tree.root
    /\ mock_num_leaves' = m.tree.num_leaves
    /\ appended' = appended \o SubSeq(elems, 1, r.taken)
    /\ last' = Call(op, r.ok, elems, num_leaves, "", "")
    /\ UNCHANGED <<height, constructed>>

Push(e) == Applied("push", <<e>>, push(self, e), mock_extend(mock, <<e>>))

Extend(elems) == Applied("extend", elems, extend(self, elems), mock_extend(mock, elems))

Lookup(i) ==
    /\ constructed
    /\ last' = Call("lookup", TRUE, <<>>, num_leaves, Kind(i), lookup(self, i).r)
    /\ UNCHANGED tree_vars

Forget(i) ==
    LET r == forget(self, i)
    IN  /\ constructed
        /\ root' = r.tree.root
        /\ last' = Call("forget", r.r = "Ok", <<>>, num_leaves, Kind(i), r.r)
        /\ UNCHANGED <<height, num_leaves, mock_root, mock_num_leaves, constructed,
                       appended>>

\* remember with the proof of the full-retention tree, its element replaced
\* by e (genuine when e is the element the leaf holds)
Remember(i, e) ==
    LET g == genuine(i)
        kind == IF e = g.proof[1].elem THEN "genuine" ELSE "bad_elem"
        r == remember(self, i, e, bad_elem(g, e))
    IN  /\ constructed
        /\ i < mock_num_leaves
        /\ Cardinality(InMemory \ {num_leaves - 1}) < MaxRemembered
        /\ root' = r.tree.root
        /\ last' = Call("remember", r.ok, <<>>, num_leaves, kind, Kind(i))
        /\ UNCHANGED <<height, num_leaves, mock_root, mock_num_leaves, constructed,
                       appended>>

Verified(i, kind, res) ==
    /\ last' = Call("verify", res # "Err", <<>>, num_leaves, kind, res)
    /\ UNCHANGED tree_vars

\* verify(&mt.root.value(), i, &proof) with the proof of the full-retention tree
VerifyGenuine(i) ==
    /\ constructed
    /\ i < mock_num_leaves
    /\ Verified(i, "genuine", verify(value(root), i, genuine(i)))

\* ... with the proof lookup returned on the light-weight tree itself
VerifyOwn(i) ==
    /\ constructed
    /\ i < num_leaves
    /\ lookup(self, i).r = "Ok"
    /\ Verified(i, "own", verify(value(root), i, lookup(self, i).proof))

\* ... with its leaf element replaced by another value
VerifyBadElem(i, e) ==
    /\ constructed
    /\ i < mock_num_leaves
    /\ e # genuine(i).proof[1].elem
    /\ Verified(i, "bad_elem", verify(value(root), i, bad_elem(genuine(i), e)))

\* ... with the proof for i re-labelled as a proof that index j holds e
VerifyForged(i, j, e) ==
    /\ constructed
    /\ i < mock_num_leaves
    /\ j # i
    /\ j < capacity(height)
    /\ ~(j < Len(appended) /\ appended[j + 1] = e)
    /\ Verified(j, "forged", verify(value(root), j, forge(genuine(i), j, e)))

\* ... with the proof for i handed over for another index j
VerifyWrongIndex(i, j) ==
    /\ constructed
    /\ i < mock_num_leaves
    /\ j # i
    /\ Verified(j, "wrong_index", verify(value(root), j, genuine(i)))

\* ... with a path one node short of the declared height
VerifyTruncated(i) ==
    /\ constructed
    /\ i < mock_num_leaves
    /\ Verified(i, "truncated", verify(value(root), i, truncated(genuine(i))))

\* ... with a path one node short and the height declared to match
VerifyShortened(i) ==
    /\ constructed
    /\ i < mock_num_leaves
    /\ Verified(i, "shortened", verify(value(root), i, shortened(genuine(i))))

Construct ==
    \/ \E h \in Heights : New(h)
    \/ \E h \in Heights \cup {NoHeight}, k \in 0..MaxBatch : FromElems(h, Fresh(0, k))

Grow ==
    \/ Push(num_leaves + 1)
    \/ \E k \in 0..MaxBatch : Extend(Fresh(num_leaves, k))

Next ==
    \/ Construct
    \/ Grow
    \/ \E i \in Indices : Lookup(i)
    \/ \E i \in Indices : Forget(i)
    \/ \E i \in Indices : \E e \in {0, i + 1} : Remember(i, e)
    \/ \E i \in Indices : VerifyGenuine(i)
    \/ \E i \in Indices : VerifyOwn(i)

Spec == Init /\ [][Next]_vars

\* the verifier against proofs an adversary has altered
NextVerify ==
    \/ Construct
    \/ Grow
    \/ \E i \in Indices : VerifyGenuine(i)
    \/ \E i \in Indices, e \in ProofElems : VerifyBadElem(i, e)
    \/ \E i \in Indices, j \in Indices, e \in ProofElems : VerifyForged(i, j, e)
    \/ \E i \in Indices, j \in Indices : VerifyWrongIndex(i, j)
    \/ \E i \in Indices : VerifyTruncated(i)
    \/ \E i \in Indices : VerifyShortened(i)

SpecVerify == Init /\ [][NextVerify]_vars

\* the appending calls alone
NextAppend ==
    \/ Construct
    \/ Grow
    \/ \E i \in Indices : Lookup(i)
    \/ \E i \in Indices : VerifyGenuine(i)

SpecAppend == Init /\ [][NextAppend]_vars

\* forgetting and remembering between the appending calls
NextForget ==
    \/ Construct
    \/ Grow
    \/ \E i \in Indices : Forget(i)
    \/ \E i \in Indices : \E e \in {0, i + 1} : Remember(i, e)

SpecForget == Init /\ [][NextForget]_vars

(* ======================= properties ======================= *)
\* the digest of the subtree of height h whose first leaf is base, in a tree
\* that holds the elements of seq at indices 0..Len(seq)-1 and nothing else
RECURSIVE RefDigest(_, _, _)
RefDigest(seq, h, base) ==
    IF base >= Len(seq) THEN empty_digest
    ELSE IF h = 0 THEN digest_leaf(base, seq[base + 1])
    ELSE digest([i \in 1..Arity |->
                    RefDigest(seq, h - 1, base + (i - 1) * pow(Arity, h - 1))])

\* no node on the path from node (of height h) is a ForgettenSubtree
RECURSIVE Materialized(_, _, _)
Materialized(node, h, path) ==
    /\ ~is_forgotten(node)
    /\ (h > 0 /\ node.t = "Branch") =>
            Materialized(node.children[selector(path, h) + 1], h - 1, path)

\* C1: an extend with more elements than the remaining capacity C - n places
\* exactly the first C - n of them at indices n..C-1, leaves num_leaves = C
\* and the root digest of a tree holding all C elements, and returns an error.
C1_PartialExtendKept ==
    LET C == capacity(height)
    IN  (last.op = "extend" /\ Len(last.elems) > C - last.n0) =>
            /\ ~last.ok
            /\ num_leaves = C
            /\ Len(appended) = C
            /\ SubSeq(appended, last.n0 + 1, C) = SubSeq(last.elems, 1, C - last.n0)
            /\ value(root) = RefDigest(appended, height, 0)

C1_Witness ==
    /\ last.op = "extend" /\ ~last.ok
    /\ height = 2 /\ last.n0 = 2 /\ last.elems = Fresh(2, 9)
    /\ num_leaves = 9 /\ appended = Fresh(0, 9)
    /\ InMemory = {8}

\* C2: while the tree is not full the next push succeeds and adds one leaf,
\* and no node on the path to index num_leaves is forgotten.
C2_NextPushSucceeds ==
    (constructed /\ num_leaves < capacity(height)) =>
        /\ push(self, num_leaves + 1).ok
        /\ push(self, num_leaves + 1).tree.num_leaves = num_leaves + 1
        /\ Materialized(root, height, to_traversal_path(num_leaves, height))

C2_Witness ==
    /\ last.op = "forget" /\ last.ok /\ last.kind = "last"
    /\ height = 2 /\ num_leaves = 5
    /\ InMemory = {}

\* C3: the light-weight tree and the full-retention tree fed the same calls
\* have the same root digest and the same num_leaves, and every proof of the
\* full-retention tree verifies as Valid against the light-weight root.
C3_SameCommitmentAsFullTree ==
    /\ value(root) = value(mock_root)
    /\ num_leaves = mock_num_leaves
    /\ \A i \in 0..(mock_num_leaves - 1) :
          /\ lookup(mock, i).r = "Ok"
          /\ verify(value(root), i, genuine(i)) = "Valid"

C3_Witness ==
    /\ last.op = "verify" /\ last.kind = "genuine" /\ last.res = "Valid"
    /\ height = 2 /\ num_leaves = 7
    /\ InMemory = {6}
    /\ lookup(mock, 0).r = "Ok"

\* C4: in a tree built by from_elems, push and extend alone that holds
\* n >= 1 leaves, lookup(n-1) finds the element appended last and every
\* earlier index is not in memory.
C4_OnlyLastLeafKept ==
    (constructed /\ num_leaves >= 1) =>
        /\ lookup(self, num_leaves - 1).r = "Ok"
        /\ lookup(self, num_leaves - 1).elem = appended[Len(appended)]
        /\ \A i \in 0..(num_leaves - 2) : lookup(self, i).r = "NotInMemory"

C4_Witness ==
    /\ last.op = "lookup" /\ last.kind = "earlier" /\ last.res = "NotInMemory"
    /\ height = 2 /\ num_leaves = capacity(height)

C6_FoundProofVerifies ==
    \A i \in 0..(num_leaves - 1) :
        lookup(self, i).r = "Ok" =>
            /\ lookup(self, i).elem = appended[i + 1]
            /\ verify(value(root), i, lookup(self, i).proof) = "Valid"

C6_Witness ==
    /\ last.op = "verify" /\ last.kind = "own" /\ last.res = "Valid"
    /\ height = 2 /\ num_leaves = 5
    /\ InMemory = {1, 4}

\* C7: a valid proof whose leaf element is replaced by a different one, its
\* cached digests untouched, verifies as Invalid.
C7_TamperedElementInvalid ==
    \A i \in 0..(mock_num_leaves - 1) :
        LET g == genuine(i)
        IN  /\ verify(value(root), i, g) = "Valid"
            /\ \A e \in ProofElems \ {g.proof[1].elem} :
                  /\ bad_elem(g, e).proof[1].value = g.proof[1].value
                  /\ verify(value(root), i, bad_elem(g, e)) = "Invalid"

C7_Witness ==
    /\ last.op = "verify" /\ last.kind = "bad_elem" /\ last.res = "Invalid"
    /\ height = 2 /\ num_leaves = 4

\* C8: the proof for i re-labelled as a proof that index j # i holds e
\* verifies as Invalid against the true root unless j really holds e.
C8_ForgedProofInvalid ==
    \A i \in 0..(mock_num_leaves - 1) :
        LET g == genuine(i)
        IN  \A j \in (0..(capacity(height) - 1)) \ {i} :
                \A e \in ProofElems :
                    ~(j < Len(appended) /\ appended[j + 1] = e) =>
                        verify(value(root), j, forge(g, j, e)) = "Invalid"

C8_Witness ==
    /\ last.op = "verify" /\ last.kind = "forged" /\ last.res = "Invalid"
    /\ height = 2 /\ num_leaves = 4

\* the proofs made from the genuine proof g that the verifier is handed for
\* index j
Handed(g, j) ==
    {g, truncated(g), shortened(g)}
        \cup {bad_elem(g, e) : e \in ProofElems}
        \cup {forge(g, j, e) : e \in ProofElems}

C10_SequentialAppend ==
    [][constructed =>
          /\ num_leaves' >= num_leaves
          /\ num_leaves' - num_leaves = Len(appended') - Len(appended)
          /\ SubSeq(appended', 1, Len(appended)) = appended
          /\ num_leaves' = Len(appended')
          /\ value(root') = RefDigest(appended', height', 0)]_vars

C10_Witness ==
    /\ last.op = "extend" /\ ~last.ok /\ last.n0 = 7 /\ Len(last.elems) = 3
    /\ height = 2 /\ num_leaves = 9
    /\ appended = Fresh(0, 9)
    /\ InMemory = {8}

\* C11: capacity() is Arity^height (9 at height 2), and num_leaves never
\* exceeds it in a state reached by new, from_elems, push and extend, the
\* state left by an extend that returned a capacity error included.
C11_WithinCapacity ==
    /\ capacity(2) = 9
    /\ constructed =>
          /\ capacity(height) = Arity ^ height
          /\ num_leaves <= capacity(height)
          /\ (last.op \in {"push", "extend"} /\ ~last.ok) =>
                num_leaves = capacity(height)

C11_Witness ==
    /\ last.op = "extend" /\ ~last.ok
    /\ height = 2 /\ last.n0 = 5 /\ Len(last.elems) = 6
    /\ num_leaves = capacity(height) /\ capacity(height) = 9

\* C12: on a full tree every push and every extend with a non-empty sequence
\* returns an error, and extend with the empty sequence returns Ok and leaves
\* the tree as it was.
C12_FullTree ==
    (constructed /\ num_leaves = capacity(height)) =>
        /\ ~push(self, num_leaves + 1).ok
        /\ \A k \in 1..MaxBatch : ~extend(self, Fresh(num_leaves, k)).ok
        /\ extend(self, <<>>).ok
        /\ extend(self, <<>>).tree = self
        /\ (last.op \in {"push", "extend"} /\ last.n0 = capacity(height)) =>
                (last.ok <=> last.elems = <<>>)

C12_Witness ==
    /\ last.op = "extend" /\ last.ok /\ last.elems = <<>>
    /\ last.n0 = capacity(height)
    /\ height = 2 /\ num_leaves = 9
    /\ InMemory = {8}

\* C13: from_elems with a height h succeeds exactly when the elements number
\* at most Arity^h; the tree it returns has height h and as many leaves as
\* there are elements, and a failed call returns no tree.
C13_FromElemsFits ==
    (last.op = "from_elems" /\ last.n0 # NoHeight) =>
        /\ last.ok <=> (Len(last.elems) <= Arity ^ last.n0)
        /\ last.ok => /\ constructed
                      /\ height = last.n0
                      /\ num_leaves = Len(last.elems)
                      /\ appended = last.elems
        /\ ~last.ok => ~constructed

C13_Witness ==
    /\ last.op = "from_elems" /\ ~last.ok
    /\ last.n0 = 1 /\ Len(last.elems) = Arity + 1
    /\ ~constructed

C15_ForgetKeepsCommitment ==
    /\ \A i \in InMemory :
          LET t == forget(self, i)
          IN  /\ t.r = "Ok"
              /\ value(t.tree.root) = value(root)
              /\ t.tree.height = height
              /\ t.tree.num_leaves = num_leaves
              /\ lookup(t.tree, i).r = "NotInMemory"
              /\ \A j \in Indices :
                    lookup(self, j).r = "NotFound" => lookup(t.tree, j).r = "NotFound"
    /\ (last.op = "forget" /\ last.ok) =>
          /\ value(root) = RefDigest(appended, height, 0)
          /\ num_leaves = Len(appended)
          /\ \A j \in Indices : j >= num_leaves => lookup(self, j).r = "NotFound"

C15_Witness ==
    /\ last.op = "forget" /\ last.ok /\ last.kind = "earlier"
    /\ height = 2 /\ num_leaves = 4
    /\ InMemory = {3}
    /\ value(root) = value(mock_root)

\* the proofs handed to remember for index i with element e (0, which no
\* leaf holds, i + 1, which leaf i holds, or i + 2, which the next leaf holds):
\* made from the proof of the full-retention tree for i or for another leaf j
Remembered(i, e) ==
    {bad_elem(genuine(i), e), truncated(bad_elem(genuine(i), e)),
     shortened(bad_elem(genuine(i), e))}
        \cup {forge(genuine(j), i, e) : j \in 0..(mock_num_leaves - 1)}

\* C16: remember(i, e, proof) materializes the leaf only when the proof
\* verifies as Valid for (i, e) against the current root digest, and the leaf
\* then holds the element appended at i; when the proof does not verify the
\* call returns an error and leaves the tree as it was.
C16_RememberVerifies ==
    \A i \in 0..(mock_num_leaves - 1) :
        \A e \in {0, i + 1, i + 2} :
            \A p \in Remembered(i, e) :
                LET r == remember(self, i, e, p)
                    valid == verify(value(root), i, p) = "Valid" /\ p.proof[1].elem = e
                IN  /\ r.ok <=> valid
                    /\ r.ok => /\ e = appended[i + 1]
                               /\ value(r.tree.root) = value(root)
                               /\ r.tree.num_leaves = num_leaves
                               /\ lookup(r.tree, i).r = "Ok"
                               /\ lookup(r.tree, i).elem = e
                    /\ ~r.ok => r.tree = self

C16_Witness ==
    /\ last.op = "remember" /\ ~last.ok /\ last.kind = "bad_elem"
    /\ last.res = "earlier"
    /\ height = 2 /\ num_leaves = 4
    /\ InMemory = {3}

\* every Branch beneath node caches the digest of its children's digests and
\* every Leaf the digest of its position and element
RECURSIVE Consistent(_)
Consistent(node) ==
    CASE node.t = "Leaf" -> node.value = digest_leaf(node.pos, node.elem)
      [] node.t = "Branch" ->
            /\ node.value = digest_branch(node.children)
            /\ \A i \in 1..Arity : Consistent(node.children[i])
      [] OTHER -> TRUE

\* the number of Branch and Leaf nodes beneath node
RECURSIVE Size(_)
RECURSIVE SizeOf(_, _)
SizeOf(children, n) ==
    IF n = 0 THEN 0 ELSE Size(children[n]) + SizeOf(children, n - 1)

Size(node) ==
    CASE node.t = "Leaf" -> 1
      [] node.t = "Branch" ->
            1 + SizeOf(node.children, Arity)
      [] OTHER -> 0

\* C17: in every reachable state, the one left by an extend that returned a
\* capacity error included, every materialized Branch caches the digest of
\* its children's digests (a forgotten child giving the digest it kept, an
\* Empty one the sentinel) and every Leaf the digest of (position, element).
C17_DigestsNeverStale ==
    /\ Consistent(root)
    /\ Consistent(mock_root)

C17_Witness ==
    /\ last.op = "extend" /\ ~last.ok /\ last.n0 = 4
    /\ height = 2 /\ num_leaves = 9
    /\ root.t = "Branch" /\ root.children[3].t = "Branch"
    /\ Size(root) = 3
    /\ root.value = digest_branch(root.children)

\* the ways to cut a sequence of k elements into consecutive non-empty
\* batches: the sequences of batch lengths
RECURSIVE Compositions(_)
Compositions(k) ==
    IF k = 0 THEN {<<>>}
    ELSE UNION {{<<j>> \o c : c \in Compositions(k - j)} : j \in 1..k}

\* the tree after push of each element in turn, and whether every call
\* returned Ok
RECURSIVE PushAll(_, _)
PushAll(t, elems) ==
    IF elems = <<>> THEN [tree |-> t, ok |-> TRUE]
    ELSE LET r == push(t, Head(elems))
             rest == PushAll(r.tree, Tail(elems))
         IN  [tree |-> rest.tree, ok |-> r.ok /\ rest.ok]

\* the tree after one extend per batch, the batches cut as sizes says
RECURSIVE ExtendAll(_, _, _)
ExtendAll(t, elems, sizes) ==
    IF sizes = <<>> THEN [tree |-> t, ok |-> TRUE]
    ELSE LET r == extend(t, SubSeq(elems, 1, Head(sizes)))
             rest == ExtendAll(r.tree, SubSeq(elems, Head(sizes) + 1, Len(elems)),
                               Tail(sizes))
         IN  [tree |-> rest.tree, ok |-> r.ok /\ rest.ok]

\* what a tree shows: its commitment and the outcome of lookup at every index
\* up to the capacity (the element too where one is found)
Outcome(t) ==
    [commitment |-> <<value(t.root), t.height, t.num_leaves>>,
     lookups |-> [i \in 0..capacity(t.height) |->
                     IF lookup(t, i).r = "Ok" THEN <<"Ok", lookup(t, i).elem>>
                     ELSE <<lookup(t, i).r>>]]

\* C18: for elements that fit in the remaining capacity, one push per
\* element, one extend of them all, and one extend per batch of any cut into
\* consecutive batches all return Ok and leave the same commitment and the
\* same lookup outcome at every index.
C18_BatchSplitting ==
    constructed =>
        \A k \in 0..MaxSplit :
            num_leaves + k <= capacity(height) =>
                LET es == Fresh(num_leaves, k)
                    one == extend(self, es)
                    each == PushAll(self, es)
                IN  /\ one.ok /\ each.ok
                    /\ one.tree.num_leaves = num_leaves + k
                    /\ Outcome(each.tree) = Outcome(one.tree)
                    /\ \A c \in Compositions(k) :
                          /\ ExtendAll(self, es, c).ok
                          /\ Outcome(ExtendAll(self, es, c).tree) = Outcome(one.tree)

C18_Witness ==
    /\ last.op = "extend" /\ last.ok /\ last.n0 = 2 /\ Len(last.elems) = 3
    /\ height = 2 /\ num_leaves = 5
    /\ InMemory = {4}
    /\ Outcome(self) = Outcome(PushAll(new(2), appended).tree)
    /\ Outcome(self) = Outcome(ExtendAll(new(2), appended, <<1, 2, 2>>).tree)

\* C19: for a height h and elements that fit, from_elems(Some(h), elements)
\* and new(h) followed by extend(elements) give the same commitment and the
\* same lookup outcome at every index.
C19_BulkAsIncremental ==
    (last.op = "from_elems" /\ last.ok /\ last.n0 # NoHeight) =>
        LET inc == extend(new(last.n0), last.elems)
        IN  /\ inc.ok
            /\ Outcome(self) = Outcome(inc.tree)
            /\ Outcome(self) = Outcome(from_elems(last.n0, last.elems).tree)

C19_Witness ==
    /\ last.op = "from_elems" /\ last.ok /\ last.n0 = 2 /\ Len(last.elems) = 2
    /\ lookup(self, 0).r = "NotInMemory"
    /\ lookup(self, 1).r = "Ok"
    /\ lookup(extend(new(2), last.elems).tree, 0).r = "NotInMemory"
    /\ lookup(extend(new(2), last.elems).tree, 1).r = "Ok"

\* C20: a proof lookup returns on a tree of height h holds h + 1 nodes, the
\* leaf and one node per branch level, and declares tree_height() = h + 1;
\* verify accepts it, and does not accept the proof with one node fewer.
C20_ProofHeight ==
    /\ \A i \in 0..(mock_num_leaves - 1) :
          LET g == genuine(i)
          IN  /\ Len(g.proof) = height + 1
              /\ tree_height(g) = height + 1
              /\ g.proof[1].t = "Leaf"
              /\ \A k \in 2..(height + 1) : g.proof[k].t = "Branch"
              /\ verify(value(root), i, g) = "Valid"
              /\ verify(value(root), i, shortened(g)) # "Valid"
              /\ verify(value(root), i, truncated(g)) # "Valid"
    /\ \A i \in InMemory :
          LET p == lookup(self, i).proof
          IN  /\ Len(p.proof) = height + 1
              /\ tree_height(p) = height + 1
              /\ verify(value(root), i, p) = "Valid"
              /\ verify(value(root), i, shortened(p)) # "Valid"

C20_Witness ==
    /\ last.op = "verify" /\ last.kind = "genuine" /\ last.res = "Valid"
    /\ height = 2 /\ num_leaves = 4
    /\ tree_height(genuine(0)) = 3
    /\ InMemory = {3}

====
